---- MODULE Spec2Model ----
(***************************************************************************)
(* State-machine model of the two React components of the repository:      *)
(*   DataTable  (src/src/components/datatable.tsx)                         *)
(*   InputField (src/unnamed/part_000)                                     *)
(* Every event handler is one action; the re-render React performs after   *)
(* a state or prop change is part of the action that caused it.            *)
(***************************************************************************)
EXTENDS Integers, Sequences, FiniteSets

VARIABLES
    \* ---- DataTable props
    data,               \* data: T[]  (sequence of record references)
    columns,            \* columns: Column<T>[]  (sequence of field keys)
    loading,            \* loading flag
    selectable,         \* selectable flag
    hasOnRowSelect,     \* whether the onRowSelect notifier is supplied
    fields,             \* contents of the record objects: record -> key -> value
    \* ---- DataTable state and derived output
    selectedRows,       \* useState<T[]>([])
    sortConfig,         \* useState<{key, direction} | null>(null)
    sortedData,         \* useMemo result of the last render
    rendered,           \* which branch the last render returned
    \* ---- DataTable observation
    onRowSelectCalls,   \* arguments of the notifier calls made by the last event
    lastEvent,          \* the last event delivered to the table
    prevSelected,       \* selectedRows as it was before the last event
    clickRepeated,      \* the last two events were clicks on the same row
    \* ---- InputField props, state and observation
    isClearable, isPassword, disabled, hasOnChange,
    value, showPassword,
    clearRendered,      \* whether the last render output the clear button
    inputType,          \* the type attribute of the rendered input
    onChangeCalls,      \* values passed to onChange by the last event
    lastFieldEvent

tableVars == <<data, columns, loading, selectable, hasOnRowSelect, fields,
               selectedRows, sortConfig, sortedData, rendered,
               onRowSelectCalls, lastEvent, prevSelected, clickRepeated>>
fieldVars == <<isClearable, isPassword, disabled, hasOnChange, value,
               showPassword, clearRendered, inputType, onChangeCalls,
               lastFieldEvent>>
vars == <<tableVars, fieldVars>>

----------------------------------------------------------------------------
\* Bounds of the model

\* longest data prop the caller passes
MaxData == 2

\* longest data prop in the sorting specification
MaxSortData == 3

\* longest text the user types into the field
MaxValueLen == 2

----------------------------------------------------------------------------
\* Generic helpers

Range(s) == {s[i] : i \in 1..Len(s)}

SeqsUpTo(S, n) == UNION {[1..m -> S] : m \in 0..n}

Reverse(s) == [i \in 1..Len(s) |-> s[Len(s) + 1 - i]]

\* number of occurrences of x in s
Count(s, x) == Cardinality({i \in 1..Len(s) : s[i] = x})

----------------------------------------------------------------------------
\* Records, keys and field values

\* the record objects (references) a caller may pass; identity is the name
Records == {"row1", "row2", "row3"}

\* keyof T
Keys == {"name", "age"}

\* JavaScript values of a field: a number (possibly NaN), a string (its
\* UTF-16 code units) or undefined
Num(n) == [type |-> "number", nan |-> FALSE, num |-> n, str |-> <<>>]
NaN == [type |-> "number", nan |-> TRUE, num |-> 0, str |-> <<>>]
Str(s) == [type |-> "string", nan |-> FALSE, num |-> 0, str |-> s]
Undefined == [type |-> "undefined", nan |-> FALSE, num |-> 0, str |-> <<>>]

\* the rows of the stories' sampleData: 'John Doe' 28, 'Jane Smith' 34,
\* 'Peter Jones' 45
sampleData ==
    [r \in Records |->
        CASE r = "row1" -> [name |-> Str(<<74, 111, 104, 110, 32, 68, 111, 101>>),
                            age |-> Num(28)]
          [] r = "row2" -> [name |-> Str(<<74, 97, 110, 101, 32, 83, 109, 105, 116, 104>>),
                            age |-> Num(34)]
          [] r = "row3" -> [name |-> Str(<<80, 101, 116, 101, 114, 32, 74, 111, 110, 101, 115>>),
                            age |-> Num(45)]]

\* a[key]
FieldOf(r, k) == fields[r][k]

\* sortConfig === null
NoSort == [key |-> "", direction |-> "none"]

SortConfigs == {NoSort} \cup [key : Keys, direction : {"asc", "desc"}]

----------------------------------------------------------------------------
\* DataTable: pure parts

\* selectedRows.includes(row)
Includes(s, x) == \E i \in 1..Len(s) : s[i] = x

\* selectedRows.filter((r) => r !== row)
RECURSIVE FilterOut(_, _)
FilterOut(s, x) ==
    IF s = <<>> THEN <<>>
    ELSE IF Head(s) = x THEN FilterOut(Tail(s), x)
         ELSE <<Head(s)>> \o FilterOut(Tail(s), x)

\* handleRowClick with the filter dropped: a selected row is never removed
handleRowClickNoRemove(sel, row, notify) ==
    LET newSelectedRows == IF Includes(sel, row) THEN sel ELSE Append(sel, row)
    IN [selectedRows |-> newSelectedRows,
        calls |-> IF notify THEN <<newSelectedRows>> ELSE <<>>]

\* handleRowClick whose removal empties the whole selection
handleRowClickClearAll(sel, row, notify) ==
    LET newSelectedRows == IF Includes(sel, row) THEN <<>> ELSE Append(sel, row)
    IN [selectedRows |-> newSelectedRows,
        calls |-> IF notify THEN <<newSelectedRows>> ELSE <<>>]

\* handleRowClick: the new selection and the notifier calls it makes
handleRowClick(sel, row, notify) ==
    LET isSelected == Includes(sel, row)
        newSelectedRows == IF isSelected THEN FilterOut(sel, row)
                           ELSE Append(sel, row)
    IN [selectedRows |-> newSelectedRows,
        calls |-> IF notify THEN <<newSelectedRows>> ELSE <<>>]

\* the row's onClick without the selectable guard
rowOnClickUnguarded(sel, row, sel_able, notify) ==
    handleRowClick(sel, row, notify)

\* the row's onClick: () => selectable && handleRowClick(row)
rowOnClick(sel, row, sel_able, notify) ==
    IF sel_able THEN handleRowClick(sel, row, notify)
    ELSE [selectedRows |-> sel, calls |-> <<>>]

\* handleSort that flips the direction whatever the previous key was
handleSortAnyKey(cfg, key) ==
    [key |-> key,
     direction |-> IF cfg # NoSort /\ cfg.direction = "asc" THEN "desc" ELSE "asc"]

\* handleSort: the next sort state
handleSort(cfg, key) ==
    [key |-> key,
     direction |-> IF cfg # NoSort /\ cfg.key = key /\ cfg.direction = "asc"
                   THEN "desc" ELSE "asc"]

\* aValue < bValue on strings: lexicographic order of the code units
RECURSIVE StrLess(_, _)
StrLess(s, t) ==
    IF t = <<>> THEN FALSE
    ELSE IF s = <<>> THEN TRUE
    ELSE IF Head(s) # Head(t) THEN Head(s) < Head(t)
    ELSE StrLess(Tail(s), Tail(t))

\* a JavaScript number result: NaN or an integer
JsNum(n) == [nan |-> FALSE, num |-> n]
JsNaN == [nan |-> TRUE, num |-> 0]

\* aValue - bValue
Minus(a, b) == IF a.nan \/ b.nan THEN JsNaN ELSE JsNum(a.num - b.num)

\* the comparator with the descending branch of the numbers forgotten
comparatorAscNumbers(a, b, cfg) ==
    LET aValue == FieldOf(a, cfg.key)
        bValue == FieldOf(b, cfg.key)
    IN IF aValue.type = "string" /\ bValue.type = "string"
       THEN IF StrLess(aValue.str, bValue.str)
            THEN JsNum(IF cfg.direction = "asc" THEN -1 ELSE 1)
            ELSE IF StrLess(bValue.str, aValue.str)
            THEN JsNum(IF cfg.direction = "asc" THEN 1 ELSE -1)
            ELSE JsNum(0)
       ELSE IF aValue.type = "number" /\ bValue.type = "number"
       THEN Minus(aValue, bValue)
       ELSE JsNum(0)

\* the comparator passed to sort
comparator(a, b, cfg) ==
    LET aValue == FieldOf(a, cfg.key)
        bValue == FieldOf(b, cfg.key)
    IN IF aValue.type = "string" /\ bValue.type = "string"
       THEN IF StrLess(aValue.str, bValue.str)
            THEN JsNum(IF cfg.direction = "asc" THEN -1 ELSE 1)
            ELSE IF StrLess(bValue.str, aValue.str)
            THEN JsNum(IF cfg.direction = "asc" THEN 1 ELSE -1)
            ELSE JsNum(0)
       ELSE IF aValue.type = "number" /\ bValue.type = "number"
       THEN IF cfg.direction = "asc" THEN Minus(aValue, bValue)
            ELSE Minus(bValue, aValue)
       ELSE JsNum(0)

\* Array.prototype.sort's use of the comparator: a NaN result counts as +0
SortCompare(a, b, cfg) ==
    LET v == comparator(a, b, cfg) IN IF v.nan THEN 0 ELSE v.num

\* one insertion of the stable sort: x moves left past every element that
\* compares greater than it
RECURSIVE InsertItem(_, _, _)
InsertItem(s, x, cfg) ==
    IF s = <<>> THEN <<x>>
    ELSE IF SortCompare(s[Len(s)], x, cfg) > 0
         THEN Append(InsertItem(SubSeq(s, 1, Len(s) - 1), x, cfg), s[Len(s)])
         ELSE Append(s, x)

\* sortableItems.sort(comparator): Array.prototype.sort is stable, and the
\* engine sorts arrays this short by insertion
RECURSIVE ArraySort(_, _)
ArraySort(items, cfg) ==
    IF items = <<>> THEN <<>>
    ELSE InsertItem(ArraySort(SubSeq(items, 1, Len(items) - 1), cfg),
                    items[Len(items)], cfg)

\* the memo sorting the data prop in place instead of a copy of it
sortedDataMemoInPlace(d, cfg) ==
    LET sorted == IF cfg # NoSort THEN ArraySort(d, cfg) ELSE d
    IN [sortedData |-> sorted, data |-> sorted]

\* the useMemo body: the array it returns, and the data prop's array after it
sortedDataMemo(d, cfg) ==
    LET sortableItems == d      \* [...data], a fresh array
    IN [sortedData |-> IF cfg # NoSort THEN ArraySort(sortableItems, cfg)
                       ELSE sortableItems,
        data |-> d]

\* the render branches with the empty check ahead of the loading check
renderOutputEmptyFirst(ld, d) ==
    IF Len(d) = 0 THEN "empty"
    ELSE IF ld THEN "loading"
    ELSE "table"

\* the branch the render returns
renderOutput(ld, d) ==
    IF ld THEN "loading"
    ELSE IF Len(d) = 0 THEN "empty"
    ELSE "table"

----------------------------------------------------------------------------
\* DataTable: events

Event(t, r, k) == [type |-> t, row |-> r, key |-> k]
MountEvent == Event("mount", "", "")
RowClickEvent(r) == Event("rowClick", r, "")
HeaderClickEvent(k) == Event("headerClick", "", k)

\* the values the caller passes as the data prop: each row is rendered under
\* the key JSON.stringify(row), so the rows of one data prop are distinct
DataProps == {d \in SeqsUpTo(Records, MaxData) :
                  \A i, j \in 1..Len(d) : i # j => d[i] # d[j]}

\* the values the caller passes as the columns prop: distinct keys in order
ColumnProps == {c \in SeqsUpTo(Keys, Cardinality(Keys)) :
                    \A i, j \in 1..Len(c) : i # j => c[i] # c[j]}

\* the component function body run with the new props and state
Rerender(d, cfg, ld) ==
    LET memo == sortedDataMemo(d, cfg)
    IN /\ data' = memo.data
       /\ sortedData' = memo.sortedData
       /\ rendered' = renderOutput(ld, memo.data)

\* a click on the row of record r of the rendered table
RowClick(r) ==
    /\ rendered = "table"
    /\ r \in Range(sortedData)
    /\ LET res == rowOnClick(selectedRows, r, selectable, hasOnRowSelect)
       IN /\ selectedRows' = res.selectedRows
          /\ onRowSelectCalls' = res.calls
    /\ prevSelected' = selectedRows
    /\ lastEvent' = RowClickEvent(r)
    /\ clickRepeated' = (lastEvent = RowClickEvent(r))
    /\ Rerender(data, sortConfig, loading)
    /\ UNCHANGED <<columns, loading, selectable, hasOnRowSelect, fields, sortConfig>>
    /\ UNCHANGED fieldVars

\* a click on the header of column k of the rendered table
HeaderClick(k) ==
    /\ rendered = "table"
    /\ k \in Range(columns)
    /\ sortConfig' = handleSort(sortConfig, k)
    /\ onRowSelectCalls' = <<>>
    /\ prevSelected' = selectedRows
    /\ lastEvent' = HeaderClickEvent(k)
    /\ clickRepeated' = FALSE
    /\ Rerender(data, sortConfig', loading)
    /\ UNCHANGED <<columns, loading, selectable, hasOnRowSelect, fields, selectedRows>>
    /\ UNCHANGED fieldVars

\* one change of the record collection by the caller: a record removed,
\* added at the end, or replaced by another
OneEdit(d, e) ==
    \/ \E i \in 1..Len(d) : e = SubSeq(d, 1, i - 1) \o SubSeq(d, i + 1, Len(d))
    \/ \E r \in Records : e = Append(d, r)
    \/ \E i \in 1..Len(d), r \in Records : r # d[i] /\ e = [d EXCEPT ![i] = r]

\* the caller re-renders the table with another data prop
SetData(d) ==
    /\ OneEdit(data, d)
    /\ onRowSelectCalls' = <<>>
    /\ prevSelected' = selectedRows
    /\ lastEvent' = Event("setData", "", "")
    /\ clickRepeated' = FALSE
    /\ Rerender(d, sortConfig, loading)
    /\ UNCHANGED <<columns, loading, selectable, hasOnRowSelect, fields,
                   selectedRows, sortConfig>>
    /\ UNCHANGED fieldVars

\* the caller re-renders the table with another columns prop
SetColumns(c) ==
    /\ c # columns
    /\ columns' = c
    /\ onRowSelectCalls' = <<>>
    /\ prevSelected' = selectedRows
    /\ lastEvent' = Event("setColumns", "", "")
    /\ clickRepeated' = FALSE
    /\ Rerender(data, sortConfig, loading)
    /\ UNCHANGED <<loading, selectable, hasOnRowSelect, fields, selectedRows, sortConfig>>
    /\ UNCHANGED fieldVars

\* the caller re-renders the table with the loading flag changed
SetLoading ==
    /\ loading' = ~loading
    /\ onRowSelectCalls' = <<>>
    /\ prevSelected' = selectedRows
    /\ lastEvent' = Event("setLoading", "", "")
    /\ clickRepeated' = FALSE
    /\ Rerender(data, sortConfig, loading')
    /\ UNCHANGED <<columns, selectable, hasOnRowSelect, fields, selectedRows, sortConfig>>
    /\ UNCHANGED fieldVars

\* the InputField as mounted by the Default story, untouched
FieldIdle ==
    /\ isClearable = FALSE /\ isPassword = FALSE /\ disabled = FALSE
    /\ hasOnChange = FALSE /\ value = <<>> /\ showPassword = FALSE
    /\ clearRendered = FALSE /\ inputType = "text" /\ onChangeCalls = <<>>
    /\ lastFieldEvent = "mount"

\* the table after its first render
TableMounted(d, c, ld, f) ==
    /\ data = d
    /\ columns = c
    /\ loading = ld
    /\ fields = f
    /\ selectedRows = <<>>
    /\ sortConfig = NoSort
    /\ sortedData = sortedDataMemo(d, NoSort).sortedData
    /\ rendered = renderOutput(ld, d)
    /\ onRowSelectCalls = <<>>
    /\ lastEvent = MountEvent
    /\ prevSelected = <<>>
    /\ clickRepeated = FALSE

Init ==
    /\ selectable \in BOOLEAN
    /\ hasOnRowSelect \in BOOLEAN
    /\ \E d \in DataProps, c \in ColumnProps, ld \in BOOLEAN :
          TableMounted(d, c, ld, sampleData)
    /\ FieldIdle

\* the values a sorted column holds in the sorting specification: numbers,
\* NaN, the strings "B", "a" and "ab", and a missing field
SortValues == {Num(-1), Num(2), Num(10), NaN,
               Str(<<66>>), Str(<<97>>), Str(<<97, 98>>), Undefined}

\* a table of any records in any order, one sortable column, nothing selected
SortInit ==
    /\ selectable = FALSE
    /\ hasOnRowSelect = FALSE
    /\ \E d \in SeqsUpTo(Records, MaxSortData), f \in [Records -> SortValues] :
          TableMounted(d, <<"age">>, FALSE,
                       [r \in Records |-> [name |-> sampleData[r].name, age |-> f[r]]])
    /\ FieldIdle

SortNext == \E k \in Keys : HeaderClick(k)

SortSpec == SortInit /\ [][SortNext]_vars

----------------------------------------------------------------------------
\* InputField

\* the characters the user types
Chars == {"a", "b"}

\* the texts the field holds: strings as sequences of characters
FieldValues == SeqsUpTo(Chars, MaxValueLen)

\* handleInputChange: the new buffer and the notifier calls
handleInputChange(targetValue, notify) ==
    [value |-> targetValue, calls |-> IF notify THEN <<targetValue>> ELSE <<>>]

\* handleClear that resets the buffer without telling the notifier
handleClearSilent(notify) == [value |-> <<>>, calls |-> <<>>]

\* handleClear: the new buffer and the notifier calls
handleClear(notify) ==
    [value |-> <<>>, calls |-> IF notify THEN <<(<<>>)>> ELSE <<>>]

\* the clear button's render condition without the value test
clearButtonRenderedAlways(clearable, v) == clearable

\* isClearable && value: the clear button is part of the output
clearButtonRendered(clearable, v) == clearable /\ v # <<>>

\* type={isPassword && !showPassword ? 'password' : 'text'}
inputTypeOf(password, show) == IF password /\ ~show THEN "password" ELSE "text"

\* the toggle handler that only ever reveals the text
togglePasswordRevealOnly(show) == TRUE

\* the toggle's handler: () => setShowPassword(!showPassword)
togglePassword(show) == ~show

\* the password toggle button's onClick; disabled={disabled} on the button
\* keeps a click from reaching the handler
toggleButtonOnClick(dis, show) == IF dis THEN show ELSE togglePassword(show)

\* the input's onChange; disabled={disabled} on the input keeps the user's
\* edits from reaching it
inputOnChange(dis, v, targetValue, notify) ==
    IF dis THEN [value |-> v, calls |-> <<>>]
    ELSE handleInputChange(targetValue, notify)

\* the clear button's onClick with the disabled attribute left off the button
clearButtonOnClickEnabled(dis, v, notify) == handleClear(notify)

\* the clear button's onClick; disabled={disabled} on the button keeps a
\* click from reaching the handler
clearButtonOnClick(dis, v, notify) ==
    IF dis THEN [value |-> v, calls |-> <<>>]
    ELSE handleClear(notify)

\* the component function body run with the new state
FieldRerender(v, show) ==
    /\ clearRendered' = clearButtonRendered(isClearable, v)
    /\ inputType' = inputTypeOf(isPassword, show)

\* the user types into the input, which would make its text v
Type(v) ==
    /\ v # value
    /\ LET res == inputOnChange(disabled, value, v, hasOnChange)
       IN /\ value' = res.value
          /\ onChangeCalls' = res.calls
    /\ lastFieldEvent' = "type"
    /\ FieldRerender(value', showPassword)
    /\ UNCHANGED <<isClearable, isPassword, disabled, hasOnChange, showPassword>>
    /\ UNCHANGED tableVars

\* the user clicks the rendered clear button; a disabled button fires no click
ClickClear ==
    /\ clearRendered
    /\ LET res == clearButtonOnClick(disabled, value, hasOnChange)
       IN /\ value' = res.value
          /\ onChangeCalls' = res.calls
    /\ lastFieldEvent' = "clear"
    /\ FieldRerender(value', showPassword)
    /\ UNCHANGED <<isClearable, isPassword, disabled, hasOnChange, showPassword>>
    /\ UNCHANGED tableVars

\* the user clicks the password toggle; a disabled button fires no click
ClickToggle ==
    /\ isPassword
    /\ showPassword' = toggleButtonOnClick(disabled, showPassword)
    /\ onChangeCalls' = <<>>
    /\ lastFieldEvent' = "toggle"
    /\ FieldRerender(value, showPassword')
    /\ UNCHANGED <<isClearable, isPassword, disabled, hasOnChange, value>>
    /\ UNCHANGED tableVars

\* the DataTable as mounted by the Default story, untouched
TableIdle ==
    /\ selectable = FALSE
    /\ hasOnRowSelect = FALSE
    /\ TableMounted(<<"row1", "row2", "row3">>, <<"name", "age">>, FALSE, sampleData)

\* the field after its first render: the buffer is seeded with value || ''
FieldInit ==
    /\ isClearable \in BOOLEAN
    /\ isPassword \in BOOLEAN
    /\ disabled \in BOOLEAN
    /\ hasOnChange \in BOOLEAN
    /\ value \in FieldValues
    /\ showPassword = FALSE
    /\ clearRendered = clearButtonRendered(isClearable, value)
    /\ inputType = inputTypeOf(isPassword, showPassword)
    /\ onChangeCalls = <<>>
    /\ lastFieldEvent = "mount"
    /\ TableIdle

FieldNext ==
    \/ \E v \in FieldValues : Type(v)
    \/ ClickClear
    \/ ClickToggle

FieldSpec == FieldInit /\ [][FieldNext]_vars

----------------------------------------------------------------------------
Next ==
    \/ \E r \in Records : RowClick(r)
    \/ \E k \in Keys : HeaderClick(k)
    \/ \E d \in DataProps : SetData(d)
    \/ \E c \in ColumnProps : SetColumns(c)
    \/ SetLoading

Spec == Init /\ [][Next]_vars

----------------------------------------------------------------------------
\* DataTable: properties

\* the selection as the set of its members
SelectionSet(sel) == Range(sel)

\* the selection after a toggle of r, as the claim states it
Toggled(S, r) == IF r \in S THEN S \ {r} ELSE S \cup {r}

\* C1: in every reachable state the selection set is a subset of the current
\* record collection (membership by reference identity).
C1_SelectionSubsetOfData == SelectionSet(selectedRows) \subseteq Range(data)

\* C2: in every reachable state the sort state is absent or its key is the
\* field key of one of the current column descriptors.
C2_SortKeyInColumns == sortConfig = NoSort \/ sortConfig.key \in Range(columns)

\* C3: a header click on column key k leaves the sort state with key k; its
\* direction is descending exactly when the previous sort state had key k and
\* direction ascending, and ascending in every other case. The sort state
\* holds one key at most.
C3_HeaderClickSetsSort ==
    [][\A k \in Keys :
          lastEvent' = HeaderClickEvent(k) =>
              /\ sortConfig' \in SortConfigs \ {NoSort}
              /\ sortConfig'.key = k
              /\ (sortConfig'.direction = "desc")
                    <=> (sortConfig # NoSort /\ sortConfig.key = k
                            /\ sortConfig.direction = "asc")
              /\ (sortConfig'.direction = "asc")
                    <=> (sortConfig = NoSort \/ sortConfig.key # k
                            \/ sortConfig.direction = "desc")]_vars

\* C3 witness: a click on the active ascending column has made it descending
C3_Witness ==
    /\ lastEvent = HeaderClickEvent("age")
    /\ sortConfig = [key |-> "age", direction |-> "desc"]

\* C6: with selectable set, a click on r's row yields the selection with r
\* added when r was absent and removed when r was present, every other
\* record's membership unchanged, and the notifier (when supplied) is invoked
\* exactly once, with a snapshot equal to the new selection.
C6_RowClickToggles ==
    [][\A r \in Records :
          (selectable /\ lastEvent' = RowClickEvent(r)) =>
              /\ SelectionSet(selectedRows') = Toggled(SelectionSet(selectedRows), r)
              /\ \A x \in Records : Count(selectedRows', x) <= 1
              /\ onRowSelectCalls' = IF hasOnRowSelect THEN <<selectedRows'>> ELSE <<>>]_vars

\* C6 witness: a click has removed a record from a selection of two and the
\* notifier has received the remaining one
C6_Witness ==
    /\ selectable /\ hasOnRowSelect
    /\ lastEvent = RowClickEvent("row1")
    /\ SelectionSet(prevSelected) = {"row1", "row2"}
    /\ onRowSelectCalls = <<(<<"row2">>)>>

\* C7: with selectable set, two clicks in succession on r's row return the
\* selection set to what it was before the first of them.
C7_DoubleClickRestores ==
    [][\A r \in Records :
          (selectable /\ lastEvent = RowClickEvent(r) /\ lastEvent' = RowClickEvent(r)) =>
              SelectionSet(selectedRows') = SelectionSet(prevSelected)]_vars

\* C7 witness: the second of two clicks on row1 has happened on a selection
\* that held row2 throughout
C7_Witness ==
    /\ selectable
    /\ clickRepeated
    /\ lastEvent = RowClickEvent("row1")
    /\ SelectionSet(prevSelected) = {"row1", "row2"}
    /\ SelectionSet(selectedRows) = {"row2"}

\* C8: with selectable=false the selection set stays empty and the notifier
\* is never invoked, whatever rows and headers are clicked.
C8_NotSelectableInert ==
    ~selectable => (selectedRows = <<>> /\ onRowSelectCalls = <<>>)

\* C8 witness: a row of a non-selectable table with a notifier has been clicked
C8_Witness ==
    ~selectable /\ hasOnRowSelect /\ lastEvent.type = "rowClick"

\* C9: when loading is set the output is the loading placeholder whatever the
\* records, sort state and selection are; when loading is not set and the
\* record collection is empty it is the empty-state placeholder; the table is
\* rendered only when loading is not set and the collection is non-empty.
C9_RenderMode ==
    /\ loading => rendered = "loading"
    /\ (~loading /\ data = <<>>) => rendered = "empty"
    /\ rendered = "table" => (~loading /\ data # <<>>)

\* C9 witness: the loading placeholder is shown over a non-empty, sorted
\* collection with a selection
C9_Witness ==
    /\ loading /\ rendered = "loading"
    /\ data # <<>> /\ sortConfig # NoSort /\ selectedRows # <<>>

----------------------------------------------------------------------------
\* DataTable sorting: properties (checked under SortSpec)

\* the values of column k in the records of d, in order
ColumnValues(d, k) == [i \in 1..Len(d) |-> FieldOf(d[i], k)]

\* every value is a number, or every value is a string
AllNumbersOrAllStrings(vs) ==
    \/ \A i \in 1..Len(vs) : vs[i].type = "number"
    \/ \A i \in 1..Len(vs) : vs[i].type = "string"

PairwiseDistinct(vs) == \A i, j \in 1..Len(vs) : i # j => vs[i] # vs[j]

\* v comes before w in the order of the values: numeric order on numbers (NaN
\* is before and after nothing), code-unit order on strings
ValueLess(v, w) ==
    IF v.type = "string" /\ w.type = "string" THEN StrLess(v.str, w.str)
    ELSE IF v.type = "number" /\ w.type = "number"
         THEN ~v.nan /\ ~w.nan /\ v.num < w.num
    ELSE FALSE

\* ordered by increasing value: no value is followed by a lesser one (on
\* distinct, totally ordered values: strictly increasing)
Increasing(vs) == \A i, j \in 1..Len(vs) : i < j => ~ValueLess(vs[j], vs[i])

\* C4: the displayed sequence holds exactly the record references of the data
\* prop, each as often as the data prop holds it, and a sort leaves the data
\* prop with its order and contents.
C4_SortedIsPermutation ==
    /\ [](\A r \in Records : Count(sortedData, r) = Count(data, r))
    /\ [](Len(sortedData) = Len(data))
    /\ [][lastEvent'.type = "headerClick" => data' = data]_vars

\* C4 witness: a sort has reordered a collection that holds one record twice
C4_Witness ==
    /\ lastEvent.type = "headerClick"
    /\ sortedData # data
    /\ \E r \in Records : Count(data, r) = 2

\* the precondition of C5 as claimed: all numbers or all strings, distinct
C5_PreOriginal(d, k) ==
    /\ AllNumbersOrAllStrings(ColumnValues(d, k))
    /\ PairwiseDistinct(ColumnValues(d, k))

\* the precondition of C5 as amended: no value is NaN
C5_Pre(d, k) ==
    /\ C5_PreOriginal(d, k)
    /\ \A i \in 1..Len(d) : ~FieldOf(d[i], k).nan

\* C5 as claimed: for a column whose values are all numbers or all strings and
\* pairwise distinct, the ascending sequence is ordered by increasing value
\* and the descending sequence is the reverse of the ascending one.
C5_Original ==
    /\ []((sortConfig # NoSort /\ sortConfig.direction = "asc"
             /\ C5_PreOriginal(data, sortConfig.key))
            => Increasing(ColumnValues(sortedData, sortConfig.key)))
    /\ [][\A k \in Keys :
            (lastEvent' = HeaderClickEvent(k) /\ sortConfig # NoSort
               /\ sortConfig.key = k /\ sortConfig.direction = "asc"
               /\ C5_PreOriginal(data, k))
              => (sortConfig'.direction = "desc" /\ sortedData' = Reverse(sortedData))]_vars

\* C5 (amended): for a column whose values are all numbers other than NaN or
\* all strings, and pairwise distinct, the ascending sequence is ordered by
\* increasing value and the descending sequence is the reverse of the
\* ascending one.
C5_AscDescReverse ==
    /\ []((sortConfig # NoSort /\ sortConfig.direction = "asc"
             /\ C5_Pre(data, sortConfig.key))
            => Increasing(ColumnValues(sortedData, sortConfig.key)))
    /\ [][\A k \in Keys :
            (lastEvent' = HeaderClickEvent(k) /\ sortConfig # NoSort
               /\ sortConfig.key = k /\ sortConfig.direction = "asc"
               /\ C5_Pre(data, k))
              => (sortConfig'.direction = "desc" /\ sortedData' = Reverse(sortedData))]_vars

\* C5 witness: three distinct numbers out of order have been sorted ascending
\* and then descending
C5_Witness ==
    /\ lastEvent = HeaderClickEvent("age")
    /\ sortConfig = [key |-> "age", direction |-> "desc"]
    /\ Len(data) = 3
    /\ C5_Pre(data, "age")
    /\ FieldOf(data[1], "age").type = "number"
    /\ sortedData # data /\ sortedData # Reverse(data)

\* C5 witness for strings: three distinct strings have been sorted descending
C5_WitnessStrings ==
    /\ sortConfig = [key |-> "age", direction |-> "desc"]
    /\ Len(data) = 3
    /\ C5_Pre(data, "age")
    /\ FieldOf(data[1], "age").type = "string"
    /\ sortedData # data

----------------------------------------------------------------------------
\* InputField: properties (checked under FieldSpec)

\* C10: with clearable enabled the clear action is offered exactly when the
\* current value is non-empty (and never without clearable); invoking it sets
\* the displayed value to the empty string, invokes the change notifier (when
\* supplied) once with the empty string, and leaves the password-visibility
\* flag unchanged.
C10_ClearResetsValue ==
    /\ [](clearRendered <=> (isClearable /\ value # <<>>))
    /\ [][(lastFieldEvent' = "clear" /\ ~disabled) =>
            /\ isClearable /\ value # <<>>
            /\ value' = <<>>
            /\ onChangeCalls' = IF hasOnChange THEN <<(<<>>)>> ELSE <<>>
            /\ showPassword' = showPassword]_vars

\* C10 witness: a clear of a non-empty password field with its text shown
\* has emptied it and told the notifier
C10_Witness ==
    /\ isClearable /\ ~disabled /\ hasOnChange
    /\ lastFieldEvent = "clear"
    /\ value = <<>>
    /\ onChangeCalls = <<(<<>>)>>
    /\ showPassword

\* C11: with password-mode enabled the value is masked on the initial render,
\* one toggle invocation shows it as plain text and a second one masks it
\* again; the visibility flag changes on toggle invocations only (never on a
\* keystroke or a clear), and a toggle leaves the value alone and does not
\* invoke the change notifier. With password-mode disabled the value is
\* always shown as plain text.
C11_PasswordToggle ==
    /\ []((isPassword /\ lastFieldEvent = "mount") => inputType = "password")
    /\ [](inputType = "password" <=> (isPassword /\ ~showPassword))
    /\ [](~isPassword => inputType = "text")
    /\ [][(lastFieldEvent' = "toggle" /\ ~disabled) =>
            /\ isPassword
            /\ showPassword' = ~showPassword
            /\ inputType' = IF inputType = "password" THEN "text" ELSE "password"
            /\ value' = value
            /\ onChangeCalls' = <<>>]_vars
    /\ [][showPassword' # showPassword => lastFieldEvent' = "toggle"]_vars

\* C11 witness: a toggle has masked the text again (the flag starts unset, so
\* it is the second toggle at least) on a field that holds text
C11_Witness ==
    /\ isPassword /\ ~disabled /\ hasOnChange
    /\ lastFieldEvent = "toggle"
    /\ ~showPassword /\ inputType = "password"
    /\ value # <<>>

\* C12: with the disabled flag set no typing, clear or password-toggle
\* interaction changes the component state (value, visibility flag) and the
\* change notifier is never invoked, whatever clearable, password-mode and the
\* current value are.
C12_DisabledInert ==
    /\ [](disabled => onChangeCalls = <<>>)
    /\ [](disabled => ~showPassword)
    /\ [][disabled =>
            /\ value' = value
            /\ showPassword' = showPassword
            /\ onChangeCalls' = <<>>]_vars

\* C12 witness: the clear button of a disabled field that holds text, has a
\* notifier and is in password mode has been clicked
C12_Witness ==
    /\ disabled /\ isClearable /\ isPassword /\ hasOnChange
    /\ value # <<>>
    /\ lastFieldEvent = "clear"

\* typing at a disabled field and clicking its toggle happen too
C12_WitnessType == disabled /\ hasOnChange /\ lastFieldEvent = "type"
C12_WitnessToggle == disabled /\ isPassword /\ lastFieldEvent = "toggle"

====
